---- MODULE Spec2Model ----
(***************************************************************************)
(* A model of OpenCCFontGenerator/font.py: the subtable partitioners       *)
(* (grouper, grouper2), the cmap / cmap_rev bookkeeping, glyph and         *)
(* codepoint removal, the reachability sweep and the build_font pipeline.  *)
(*                                                                         *)
(* Three specifications share the variables:                               *)
(*   SpecChunk  applies grouper / grouper2 to bounded inputs;              *)
(*   Spec       calls the font-editing functions on a loaded font;         *)
(*   SpecBuild  runs build_font statement by statement.                    *)
(***************************************************************************)
EXTENDS Integers, Sequences, FiniteSets, TLC

VARIABLES
    items,      \* grouper / grouper2: the iterable handed in
    limit,      \* grouper / grouper2: the parameter n
    groups,     \* grouper / grouper2: list(...) of what was yielded
    font,       \* the font object `obj` (a dict in the source)
    lastOp,     \* the function that ran last, with its argument
    raised,     \* the exception the last call ended in, or "none"
    returned,   \* the value the last call returned
    pc,         \* build_font: the statement reached
    build       \* build_font: its local variables and the output file

vars == <<items, limit, groups, font, lastOp, raised, returned, pc, build>>

-----------------------------------------------------------------------------
(* Bounds of the model. *)

\* longest iterable handed to grouper / grouper2
MaxLen == 4
\* largest chunk size n tried for grouper / grouper2
MaxN == 3

-----------------------------------------------------------------------------
(* Program constants. *)

SUBTABLE_MAX_COUNT == 4000
MAX_GLYPH_COUNT == 65535

-----------------------------------------------------------------------------
(* Generic helpers for Python lists, dicts and sets. *)

Range(s) == {s[i] : i \in DOMAIN s}

\* list.remove(x): drops the FIRST occurrence of x (the caller guards presence)
RECURSIVE ListRemove(_, _)
ListRemove(s, x) ==
    IF s = <<>> THEN <<>>
    ELSE IF Head(s) = x THEN Tail(s)
    ELSE <<Head(s)>> \o ListRemove(Tail(s), x)

\* the concatenation of a list of lists
RECURSIVE Flatten(_)
Flatten(ss) == IF ss = <<>> THEN <<>> ELSE Head(ss) \o Flatten(Tail(ss))

\* dict.pop(k, None) / del d[k]: the dict without key k
DictPop(d, k) == [x \in (DOMAIN d) \ {k} |-> d[x]]

\* the keys of a dict, as a list in a fixed order
RECURSIVE KeysOf(_)
KeysOf(d) ==
    IF DOMAIN d = {} THEN <<>>
    ELSE LET k == CHOOSE x \in DOMAIN d : TRUE
         IN <<k>> \o KeysOf(DictPop(d, k))

\* the elements of a finite set of integers in ascending order
RECURSIVE SortedSeq(_)
SortedSeq(S) ==
    IF S = {} THEN <<>>
    ELSE LET m == CHOOSE x \in S : \A y \in S : x <= y
         IN <<m>> \o SortedSeq(S \ {m})

-----------------------------------------------------------------------------
(* grouper and grouper2 (font.py 18-49). *)

\* grouper without the `if lst: yield lst` of the StopIteration handler
RECURSIVE grouper_dropsTail(_, _)
grouper_dropsTail(iterable, n) ==
    IF Len(iterable) < n THEN <<>>
    ELSE <<SubSeq(iterable, 1, n)>>
            \o grouper_dropsTail(SubSeq(iterable, n + 1, Len(iterable)), n)

\* grouper(iterable, n): each pass of `while True` takes n items; when the
\* iterator runs dry before the n-th, the partial list is yielded if it is
\* non-empty and the generator ends.
RECURSIVE grouper(_, _)
grouper(iterable, n) ==
    IF Len(iterable) < n
    THEN (IF iterable # <<>> THEN <<iterable>> ELSE <<>>)
    ELSE <<SubSeq(iterable, 1, n)>>
            \o grouper(SubSeq(iterable, n + 1, Len(iterable)), n)

\* the length of the run of items at the head of s whose key equals k
RECURSIVE RunLen(_, _, _)
RunLen(s, k, key) ==
    IF s = <<>> \/ key[Head(s)] # k THEN 0
    ELSE 1 + RunLen(Tail(s), k, key)

\* itertools.groupby(iterable, key): the maximal runs of consecutive items
\* of equal key, in order (key is the function item |-> key value)
RECURSIVE groupby(_, _)
groupby(iterable, key) ==
    IF iterable = <<>> THEN <<>>
    ELSE LET r == RunLen(iterable, key[Head(iterable)], key)
         IN <<SubSeq(iterable, 1, r)>>
                \o groupby(SubSeq(iterable, r + 1, Len(iterable)), key)

RECURSIVE grouperEach(_, _)
grouperEach(runs, n) ==
    IF runs = <<>> THEN <<>>
    ELSE grouper(Head(runs), n) \o grouperEach(Tail(runs), n)

\* grouper2 that ignores the key and only chunks by size
grouper2_ignoresKey(iterable, n, key) == grouper(iterable, n)

\* grouper2(iterable, n, key): grouper applied to every groupby run
grouper2(iterable, n, key) == grouperEach(groupby(iterable, key), n)

-----------------------------------------------------------------------------
(* Codepoints and their dict keys.  cmap is keyed by the decimal string of *)
(* the codepoint; a string of digits is modelled as the list of its digits.*)

\* str(codepoint): the decimal digits, most significant first
RECURSIVE str(_)
str(n) == IF n < 10 THEN <<n>> ELSE str(n \div 10) \o <<n % 10>>

\* int(key): the value of a string of decimal digits
RECURSIVE int(_)
int(s) ==
    IF Len(s) = 1 THEN s[1]
    ELSE 10 * int(SubSeq(s, 1, Len(s) - 1)) + s[Len(s)]

\* the keys of a dict of decimal strings, by ascending codepoint
KeysInOrder(keys) ==
    LET nums == SortedSeq({int(k) : k \in keys})
    IN [i \in DOMAIN nums |-> str(nums[i])]

-----------------------------------------------------------------------------
(* cmap_rev (font.py 59-63). *)

\* build_cmap_rev: for every (codepoint, glyph_name) of cmap, the codepoint
\* is appended to cmap_rev[glyph_name]
build_cmap_rev(obj) ==
    LET cmap == obj.cmap
        order == KeysInOrder(DOMAIN cmap)
    IN [g \in {cmap[c] : c \in DOMAIN cmap} |->
            SelectSeq(order, LAMBDA c : cmap[c] = g)]

\* obj['cmap_rev'][glyph_name] on the defaultdict(list)
CmapRevGet(obj, glyph_name) ==
    IF glyph_name \in DOMAIN obj.cmap_rev THEN obj.cmap_rev[glyph_name] ELSE <<>>

-----------------------------------------------------------------------------
(* remove_glyph (font.py 216-331). *)

\* gsub_single subtable {a: b}: the key glyph_name is popped, then every
\* key whose value is glyph_name
GsubSingleRemove(subtable, glyph_name) ==
    LET popped == DictPop(subtable, glyph_name)
    IN [k \in {x \in DOMAIN popped : popped[x] # glyph_name} |-> popped[k]]

\* gsub_alternate subtable {a: [b1, b2, ...]}: the key is popped, and
\* alternates.remove(glyph_name) edits every list that holds it
GsubAlternateRemove(subtable, glyph_name) ==
    LET popped == DictPop(subtable, glyph_name)
    IN [k \in DOMAIN popped |->
            IF glyph_name \in Range(popped[k])
            THEN ListRemove(popped[k], glyph_name)
            ELSE popped[k]]

\* gsub_ligature subtable {substitutions: [{from, to}, ...]}: the rules
\* that name glyph_name in from or as to are left out
GsubLigatureRemove(subtable, glyph_name) ==
    [subtable EXCEPT !.substitutions =
        SelectSeq(@, LAMBDA s : glyph_name \notin Range(s.from) /\ glyph_name # s.to)]

GsubKnownTypes == {"gsub_single", "gsub_alternate", "gsub_ligature"}

\* one pass of the loop over obj['GSUB']['lookups'].values(); a lookup of
\* any other type is printed and left as it is
GsubLookupRemove(lookup, glyph_name) ==
    CASE lookup.type = "gsub_single" ->
            [lookup EXCEPT !.subtables =
                [i \in DOMAIN @ |-> GsubSingleRemove(@[i], glyph_name)]]
      [] lookup.type = "gsub_alternate" ->
            [lookup EXCEPT !.subtables =
                [i \in DOMAIN @ |-> GsubAlternateRemove(@[i], glyph_name)]]
      [] lookup.type = "gsub_ligature" ->
            [lookup EXCEPT !.subtables =
                [i \in DOMAIN @ |-> GsubLigatureRemove(@[i], glyph_name)]]
      [] OTHER -> lookup

\* rule.get(field, [])
RuleGet(rule, field) == IF field \in DOMAIN rule THEN rule[field] ELSE <<>>

\* gpos_mark_to_ligature: marks is popped; under bases, glyph_name is popped
\* from every anchor dict
GposMarkToLigatureRemove(subtable, glyph_name) ==
    [subtable EXCEPT
        !.marks = DictPop(@, glyph_name),
        !.bases = [b \in DOMAIN @ |->
                      [a \in DOMAIN @[b] |-> DictPop(@[b][a], glyph_name)]]]

\* the index of the first occurrence of x in s (list.index)
ListIndex(s, x) == CHOOSE i \in DOMAIN s : s[i] = x /\ \A j \in 1..(i - 1) : s[j] # x

\* list.pop(index)
ListPopAt(s, i) == SubSeq(s, 1, i - 1) \o SubSeq(s, i + 1, Len(s))

\* gpos_context: the rule-list, coverage+pos and class-list formats, told
\* apart by the keys of the subtable; any other shape is printed
GposContextRemove(subtable, glyph_name) ==
    IF "rules" \in DOMAIN subtable THEN
        [subtable EXCEPT !.rules =
            SelectSeq(@, LAMBDA rule :
                /\ glyph_name \notin Range(RuleGet(rule, "input"))
                /\ glyph_name \notin Range(RuleGet(rule, "lookups")))]
    ELSE IF "coverage" \in DOMAIN subtable /\ "pos" \in DOMAIN subtable THEN
        IF glyph_name \in Range(subtable.coverage)
        THEN LET index == ListIndex(subtable.coverage, glyph_name)
             IN [subtable EXCEPT !.coverage = ListPopAt(@, index),
                                 !.pos = ListPopAt(@, index)]
        ELSE subtable
    ELSE IF "classes" \in DOMAIN subtable THEN
        [subtable EXCEPT !.classes =
            [i \in DOMAIN @ |->
                IF glyph_name \in Range(@[i]) THEN ListRemove(@[i], glyph_name)
                ELSE @[i]]]
    ELSE subtable

\* gpos_chaining: the rule-list format only; any other shape is printed
GposChainingRemove(subtable, glyph_name) ==
    IF "rules" \in DOMAIN subtable THEN
        [subtable EXCEPT !.rules =
            SelectSeq(@, LAMBDA rule :
                /\ glyph_name \notin Range(RuleGet(rule, "input"))
                /\ glyph_name \notin Range(RuleGet(rule, "backtrack"))
                /\ glyph_name \notin Range(RuleGet(rule, "lookahead"))
                /\ glyph_name \notin Range(RuleGet(rule, "lookups")))]
    ELSE subtable

GposSubtableRemove(type, subtable, glyph_name) ==
    CASE type \in {"gpos_single", "gpos_cursive"} -> DictPop(subtable, glyph_name)
      [] type = "gpos_pair" ->
            [subtable EXCEPT !.first = DictPop(@, glyph_name),
                             !.second = DictPop(@, glyph_name)]
      [] type = "gpos_mark_to_base" ->
            [subtable EXCEPT !.marks = DictPop(@, glyph_name),
                             !.bases = DictPop(@, glyph_name)]
      [] type = "gpos_mark_to_mark" ->
            [subtable EXCEPT !.marks = DictPop(@, glyph_name),
                             !.mark2s = DictPop(@, glyph_name)]
      [] type = "gpos_mark_to_ligature" -> GposMarkToLigatureRemove(subtable, glyph_name)
      [] type = "gpos_context" -> GposContextRemove(subtable, glyph_name)
      [] type = "gpos_chaining" -> GposChainingRemove(subtable, glyph_name)
      [] OTHER -> subtable

\* one pass of the loop over obj['GPOS']['lookups'].values(); a lookup of
\* an unknown type is printed and left as it is
GposLookupRemove(lookup, glyph_name) ==
    [lookup EXCEPT !.subtables =
        [i \in DOMAIN @ |-> GposSubtableRemove(lookup.type, @[i], glyph_name)]]

\* the BASE table: under HorizAxis.BaseTagList.BaseScriptList, every
\* BaseCoord of every BaseValues record of every language system
BaseRemove(base_table, glyph_name) ==
    [base_table EXCEPT !.HorizAxis.BaseTagList.BaseScriptList =
        [script \in DOMAIN @ |->
            [lang \in DOMAIN @[script] |->
                LET base_lang_sys == @[script][lang]
                IN IF "BaseValues" \in DOMAIN base_lang_sys
                   THEN [base_lang_sys EXCEPT !.BaseValues =
                            [i \in DOMAIN @ |->
                                IF "BaseCoord" \in DOMAIN @[i]
                                THEN [@[i] EXCEPT !.BaseCoord = DictPop(@, glyph_name)]
                                ELSE @[i]]]
                   ELSE base_lang_sys]]]

\* remove_glyph(obj, glyph_name)
remove_glyph(obj, glyph_name) ==
    LET o1 == [obj EXCEPT !.glyph_order = ListRemove(@, glyph_name),
                          !.glyf = DictPop(@, glyph_name)]
        o2 == IF "GSUB" \in DOMAIN o1
              THEN [o1 EXCEPT !.GSUB.lookups =
                        [l \in DOMAIN @ |-> GsubLookupRemove(@[l], glyph_name)]]
              ELSE o1
        o3 == IF "GPOS" \in DOMAIN o2
              THEN [o2 EXCEPT !.GPOS.lookups =
                        [l \in DOMAIN @ |-> GposLookupRemove(@[l], glyph_name)]]
              ELSE o2
    IN IF "BASE" \in DOMAIN o3
       THEN [o3 EXCEPT !.BASE = BaseRemove(@, glyph_name)]
       ELSE o3

-----------------------------------------------------------------------------
(* Codepoint removal (font.py 165-213). *)

\* disassociate that deletes the cmap entry and leaves cmap_rev as it was
\* when the glyph keeps other codepoints
disassociate_keepsRev(obj, codepoint, glyph_name) ==
    LET is_only_item == CmapRevGet(obj, glyph_name) = <<codepoint>>
    IN [obj |-> [obj EXCEPT
                    !.cmap = DictPop(@, codepoint),
                    !.cmap_rev = IF is_only_item THEN DictPop(@, glyph_name) ELSE @],
        is_only_item |-> is_only_item]

\* disassociate_codepoint_and_glyph_name: the font after the call and the
\* value returned
disassociate_codepoint_and_glyph_name(obj, codepoint, glyph_name) ==
    LET is_only_item == CmapRevGet(obj, glyph_name) = <<codepoint>>
    IN [obj |-> [obj EXCEPT
                    !.cmap = DictPop(@, codepoint),
                    !.cmap_rev =
                        IF is_only_item THEN DictPop(@, glyph_name)
                        ELSE [g \in DOMAIN @ \cup {glyph_name} |->
                                IF g = glyph_name
                                THEN ListRemove(CmapRevGet(obj, g), codepoint)
                                ELSE @[g]]],
        is_only_item |-> is_only_item]

\* remove_codepoint(obj, codepoint); a glyph name that is falsy (the empty
\* string) counts as no glyph
remove_codepoint(obj, codepoint) ==
    LET key == str(codepoint)
    IN IF key \notin DOMAIN obj.cmap \/ obj.cmap[key] = "" THEN obj
       ELSE LET glyph_name == obj.cmap[key]
                d == disassociate_codepoint_and_glyph_name(obj, key, glyph_name)
            IN IF d.is_only_item THEN remove_glyph(d.obj, glyph_name) ELSE d.obj

\* remove_codepoints(obj, codepoints), codepoints a list
RECURSIVE remove_codepoints(_, _)
remove_codepoints(obj, codepoints) ==
    IF codepoints = <<>> THEN obj
    ELSE remove_codepoints(remove_codepoint(obj, Head(codepoints)), Tail(codepoints))

\* remove_associated_codepoints_of_glyph: every codepoint listed for the
\* glyph leaves cmap, then the glyph's entry leaves cmap_rev
remove_associated_codepoints_of_glyph(obj, glyph_name) ==
    LET listed == Range(CmapRevGet(obj, glyph_name))
    IN [obj EXCEPT !.cmap = [c \in (DOMAIN @) \ listed |-> @[c]],
                   !.cmap_rev = DictPop(@, glyph_name)]

-----------------------------------------------------------------------------
(* Reachability and the sweep (font.py 333-370). *)

\* what one GSUB lookup adds for glyph_name
LookupRefs(lookup, glyph_name) ==
    CASE lookup.type = "gsub_single" ->
            {lookup.subtables[i][glyph_name] :
                i \in {j \in DOMAIN lookup.subtables :
                            glyph_name \in DOMAIN lookup.subtables[j]}}
      [] lookup.type = "gsub_alternate" ->
            UNION {Range(lookup.subtables[i][glyph_name]) :
                i \in {j \in DOMAIN lookup.subtables :
                            glyph_name \in DOMAIN lookup.subtables[j]}}
      [] lookup.type = "gsub_ligature" ->
            UNION {{item.to : item \in
                        {it \in Range(lookup.subtables[i].substitutions) :
                            glyph_name \in Range(it.from)}} :
                i \in DOMAIN lookup.subtables}
      [] OTHER -> {}

\* the glyphs the body of the loop adds for one glyph of cmap
GlyphRefs(obj, glyph_name) ==
    {glyph_name} \cup
        UNION {LookupRefs(obj.GSUB.lookups[l], glyph_name) : l \in DOMAIN obj.GSUB.lookups}

\* obj['cmap'] has no item, for a named or an unnamed glyph
CmapIsEmpty(obj) == DOMAIN obj.cmap = {} /\ obj.unnamed_glyphs = 0

\* get_reachable_glyphs_raises with the type test ahead of the loop over
\* cmap, so that an empty cmap raises too
get_reachable_glyphs_raises_beforeLoop(obj) ==
    \E l \in DOMAIN obj.GSUB.lookups : obj.GSUB.lookups[l].type \notin GsubKnownTypes

\* get_reachable_glyphs raises NotImplementedError: the test sits inside the
\* loop over cmap's glyphs, so it is met when cmap has an entry (one of a
\* named or of an unnamed glyph) and some lookup is of another type
get_reachable_glyphs_raises(obj) ==
    /\ ~CmapIsEmpty(obj)
    /\ \E l \in DOMAIN obj.GSUB.lookups : obj.GSUB.lookups[l].type \notin GsubKnownTypes

\* get_reachable_glyphs(obj), when it returns
get_reachable_glyphs(obj) ==
    {".notdef", ".null"} \cup
        UNION {GlyphRefs(obj, obj.cmap[c]) : c \in DOMAIN obj.cmap}

\* the loop of clean_unused_glyphs over a set of glyph names (the removals
\* of different glyphs commute, so one order stands for all)
RECURSIVE SweepGlyphs(_, _)
SweepGlyphs(obj, names) ==
    IF names = {} THEN obj
    ELSE LET glyph_name == CHOOSE g \in names : TRUE
         IN SweepGlyphs(
                remove_glyph(remove_associated_codepoints_of_glyph(obj, glyph_name),
                             glyph_name),
                names \ {glyph_name})

\* clean_unused_glyphs(obj), when get_reachable_glyphs returns
clean_unused_glyphs(obj) ==
    LET reachable_glyphs == get_reachable_glyphs(obj)
        all_glyphs == Range(obj.glyph_order)
    IN SweepGlyphs(obj, all_glyphs \ reachable_glyphs)

-----------------------------------------------------------------------------
(* The helpers of build_font (font.py 75-162, 373-442). *)

\* codepoint_to_glyph_name raises KeyError: the codepoint is no key of cmap
codepoint_to_glyph_name_raises(obj, codepoint) == str(codepoint) \notin DOMAIN obj.cmap

\* codepoint_to_glyph_name(obj, codepoint), when it returns
codepoint_to_glyph_name(obj, codepoint) == obj.cmap[str(codepoint)]

\* insert_empty_glyph(obj, name)
insert_empty_glyph(obj, name) ==
    [obj EXCEPT
        !.glyf = (name :> [advanceWidth |-> 0, advanceHeight |-> 1000,
                           verticalOrigin |-> 880]) @@ @,
        !.glyph_order = Append(@, name)]

\* get_glyph_count(obj): len(obj['glyph_order'])
get_glyph_count(obj) == Len(obj.glyph_order) + obj.unnamed_glyphs

\* build_codepoints_font(obj): the codepoints of the cmap keys
build_codepoints_font(obj) == {int(k) : k \in DOMAIN obj.cmap}

\* membership in build_codepoints_non_han()
InNonHan(c) ==
    \/ c \in 32..255        \* 0x0020-0x00FF
    \/ c \in 688..767       \* 0x02B0-0x02FF
    \/ c \in 8194..8251     \* 0x2002-0x203B
    \/ c \in 11776..11903   \* 0x2E00-0x2E7F
    \/ c \in 11904..12031   \* 0x2E80-0x2EFF
    \/ c \in 12288..12316   \* 0x3000-0x301C
    \/ c \in 12544..12591   \* 0x3100-0x312F
    \/ c \in 12688..12735   \* 0x3190-0x31BF
    \/ c \in 65040..65055   \* 0xFE10-0xFE1F
    \/ c \in 65072..65103   \* 0xFE30-0xFE4F
    \/ c \in 65281..65374   \* 0xFF01-0xFF5E
    \/ c \in 65375..65376   \* 0xFF5F-0xFF60
    \/ c \in 65377..65380   \* 0xFF61-0xFF64

\* build_opencc_char_table: the lines (k, v) of the file with both
\* codepoints in the font, in file order
build_opencc_char_table(codepoints_font, lines) ==
    SelectSeq(lines, LAMBDA e : e[1] \in codepoints_font /\ e[2] \in codepoints_font)

\* build_opencc_word_table: the lines (k, v) of the file with every
\* codepoint of both sides in the font, in file order
build_opencc_word_table(codepoints_font, lines) ==
    SelectSeq(lines, LAMBDA e : /\ Range(e[1]) \subseteq codepoints_font
                                /\ Range(e[2]) \subseteq codepoints_font)

\* the assertion of build_font one glyph too generous
assert_available_offByOne(obj, entries_word) ==
    (MAX_GLYPH_COUNT + 1) - get_glyph_count(obj) >= Len(entries_word)

\* available_glyph_count = MAX_GLYPH_COUNT - get_glyph_count(font);
\* assert available_glyph_count >= len(entries_word)
assert_available(obj, entries_word) ==
    MAX_GLYPH_COUNT - get_glyph_count(obj) >= Len(entries_word)

\* 'pseu%X' % i
HexDigit == <<"0", "1", "2", "3", "4", "5", "6", "7", "8", "9",
              "A", "B", "C", "D", "E", "F">>

RECURSIVE HexString(_)
HexString(i) ==
    IF i < 16 THEN HexDigit[i + 1]
    ELSE HexString(i \div 16) \o HexDigit[(i % 16) + 1]

pseudo_glyph_name(i) == "pseu" \o HexString(i)

\* insert_empty_feature that registers the feature without attaching it
\* to the language systems
insert_empty_feature_noLanguages(obj, feature_name) ==
    [obj EXCEPT !.GSUB.features = (feature_name :> <<>>) @@ @]

\* insert_empty_feature(obj, feature_name)
insert_empty_feature(obj, feature_name) ==
    [obj EXCEPT
        !.GSUB.languages =
            [t \in DOMAIN @ |-> [@[t] EXCEPT !.features = Append(@, feature_name)]],
        !.GSUB.features = (feature_name :> <<>>) @@ @]

\* {k: v for k, v in subtable}: a later pair of the same key wins
RECURSIVE DictOfPairs(_)
DictOfPairs(pairs) ==
    IF pairs = <<>> THEN <<>>
    ELSE LET last == pairs[Len(pairs)]
         IN (last[1] :> last[2]) @@ DictOfPairs(SubSeq(pairs, 1, Len(pairs) - 1))

\* the registration shared by the three create_*_table functions: the name
\* joins the feature's list, the lookup is stored, the name joins lookupOrder
RegisterLookup(obj, feature_name, lookup_name, type, subtables) ==
    [obj EXCEPT
        !.GSUB.features[feature_name] = Append(@, lookup_name),
        !.GSUB.lookups = (lookup_name :> [type |-> type, flags |-> <<>>,
                                          subtables |-> subtables]) @@ @,
        !.GSUB.lookupOrder = Append(@, lookup_name)]

\* create_word2pseu_table with the subtables in reverse order
create_word2pseu_table_reversed(obj, feature_name, conversions) ==
    LET key == [x \in Range(conversions) |-> Len(x[1])]
        chunks == grouper2(conversions, SUBTABLE_MAX_COUNT, key)
        subtables == [i \in DOMAIN chunks |->
                        [substitutions |->
                            [j \in DOMAIN chunks[Len(chunks) + 1 - i] |->
                                [from |-> chunks[Len(chunks) + 1 - i][j][1],
                                 to |-> chunks[Len(chunks) + 1 - i][j][2]]]]]
    IN RegisterLookup(obj, feature_name, "word2pseu", "gsub_ligature", subtables)

\* create_word2pseu_table(obj, feature_name, conversions)
create_word2pseu_table(obj, feature_name, conversions) ==
    LET key == [x \in Range(conversions) |-> Len(x[1])]
        chunks == grouper2(conversions, SUBTABLE_MAX_COUNT, key)
        subtables == [i \in DOMAIN chunks |->
                        [substitutions |->
                            [j \in DOMAIN chunks[i] |->
                                [from |-> chunks[i][j][1], to |-> chunks[i][j][2]]]]]
    IN RegisterLookup(obj, feature_name, "word2pseu", "gsub_ligature", subtables)

\* create_char2char_table(obj, feature_name, conversions)
create_char2char_table(obj, feature_name, conversions) ==
    LET chunks == grouper(conversions, SUBTABLE_MAX_COUNT)
        subtables == [i \in DOMAIN chunks |-> DictOfPairs(chunks[i])]
    IN RegisterLookup(obj, feature_name, "char2char", "gsub_single", subtables)

\* create_pseu2word_table(obj, feature_name, conversions)
create_pseu2word_table(obj, feature_name, conversions) ==
    LET key == [x \in Range(conversions) |-> Len(x[2])]
        chunks == grouper2(conversions, SUBTABLE_MAX_COUNT, key)
        subtables == [i \in DOMAIN chunks |-> DictOfPairs(chunks[i])]
    IN RegisterLookup(obj, feature_name, "pseu2word", "gsub_multiple", subtables)

\* build_name_header: the tokens of every nameString of the template
\* replaced by the style, the version and the date
build_name_header(template, style, version, date) ==
    [i \in DOMAIN template |->
        [template[i] EXCEPT !.nameString =
            [j \in DOMAIN @ |->
                CASE @[j] = "<Typographic Subfamily Name>" -> style
                  [] @[j] = "<Version>" -> version
                  [] @[j] = "<Date>" -> date
                  [] OTHER -> @[j]]]]

\* modify_metadata(obj, name_header_file, font_version)
modify_metadata(obj, template, font_version, today) ==
    LET styles == SelectSeq(obj.name, LAMBDA item : item.nameID \in {17, 2})
        style == IF styles # <<>> THEN styles[1].nameString ELSE "Regular"
    IN [obj EXCEPT !.head.fontRevision = font_version,
                   !.name = build_name_header(template, style, font_version, today)]

\* save_font: cmap_rev is deleted and the object handed to otfccbuild
save_font(obj) == [k \in (DOMAIN obj) \ {"cmap_rev"} |-> obj[k]]

-----------------------------------------------------------------------------
(* The fonts the model loads.  A decoded font holds cmap, glyph_order,     *)
(* glyf, GSUB, GPOS and BASE; load_font adds cmap_rev.                     *)

\* the glyph names of the loaded fonts
Glyphs == {".notdef", "a", "b", "c", "d"}

\* the codepoints tried: U+0041, U+0100, U+5927 (and U+5C0F, in no font)
Codepoints == {65, 256, 22823}
AbsentCodepoint == 23567

\* every cmap from some of the codepoints to the glyphs a and b
CmapChoices ==
    UNION {[{str(c) : c \in S} -> {"a", "b"}] : S \in SUBSET Codepoints}

\* gsub_single subtables {a: b}
SingleChoices ==
    {<<>>,
     ("a" :> "b") @@ ("b" :> "c"),
     ("b" :> "c") @@ ("c" :> "d"),
     ("a" :> "d") @@ ("d" :> "a")}

\* gsub_alternate subtables {a: [b1, b2, ...]}
AlternateChoices ==
    {<<>>,
     ("a" :> <<"c", "d">>),
     ("c" :> <<"d", "b">>) @@ ("d" :> <<"c">>)}

\* gsub_ligature substitutions [{from, to}, ...]
LigatureChoices ==
    {<<>>,
     <<[from |-> <<"a", "b">>, to |-> "c"]>>,
     <<[from |-> <<"a", "c">>, to |-> "d"], [from |-> <<"b">>, to |-> "c"]>>}

\* a further GSUB lookup of a type get_reachable_glyphs does not know:
\* none, a gsub_multiple {a: [b1, b2, ...]}, or a gsub_chaining
OtherChoices ==
    {<<>>,
     ("mult" :> [type |-> "gsub_multiple", flags |-> <<>>,
                 subtables |-> <<("d" :> <<"a", "b">>) @@ ("b" :> <<"c">>)>>]),
     ("chain" :> [type |-> "gsub_chaining", flags |-> <<>>,
                  subtables |-> <<[match |-> <<"a", "d">>]>>])}

GsubOf(single, alternate, ligature, other) ==
    [lookups |->
        ("sing" :> [type |-> "gsub_single", flags |-> <<>>,
                    subtables |-> <<single>>])
        @@ ("alt" :> [type |-> "gsub_alternate", flags |-> <<>>,
                      subtables |-> <<alternate>>])
        @@ ("liga" :> [type |-> "gsub_ligature", flags |-> <<>>,
                       subtables |-> <<[substitutions |-> ligature]>>])
        @@ other,
     features |-> ("ccmp" :> <<"sing", "alt">>) @@ ("liga" :> <<"liga">>),
     languages |-> ("DFLT_DFLT" :> [features |-> <<"ccmp", "liga">>])
                   @@ ("hani_DFLT" :> [features |-> <<"liga">>]),
     lookupOrder |-> <<"sing", "alt", "liga">> \o KeysOf(other)]

\* a GPOS table with one lookup of every type remove_glyph handles, and
\* one it does not
SampleGPOS ==
    [lookups |->
        ("single" :> [type |-> "gpos_single",
                      subtables |-> <<("a" :> 1) @@ ("c" :> 2)>>])
        @@ ("pair" :> [type |-> "gpos_pair",
                       subtables |-> <<[first |-> ("a" :> 1) @@ ("b" :> 1),
                                        second |-> ("b" :> 1) @@ ("d" :> 2)]>>])
        @@ ("m2b" :> [type |-> "gpos_mark_to_base",
                      subtables |-> <<[marks |-> ("c" :> 1),
                                       bases |-> ("a" :> 1) @@ ("b" :> 1)]>>])
        @@ ("m2m" :> [type |-> "gpos_mark_to_mark",
                      subtables |-> <<[marks |-> ("c" :> 1),
                                       mark2s |-> ("d" :> 1)]>>])
        @@ ("m2l" :> [type |-> "gpos_mark_to_ligature",
                      subtables |-> <<[marks |-> ("d" :> 1),
                                       bases |-> ("c" :> ("k1" :> (("a" :> 1) @@ ("b" :> 2))))]>>])
        @@ ("curs" :> [type |-> "gpos_cursive",
                       subtables |-> <<("b" :> 1) @@ ("d" :> 1)>>])
        @@ ("ctx" :> [type |-> "gpos_context",
                      subtables |-> <<[rules |-> <<[input |-> <<"a", "b">>],
                                                   [input |-> <<"c">>, lookups |-> <<"d">>]>>],
                                      [coverage |-> <<"a", "c", "d">>, pos |-> <<1, 2, 3>>],
                                      [classes |-> <<<<"a", "b">>, <<"c", "d">>>>],
                                      [other |-> <<"a">>]>>])
        @@ ("chn" :> [type |-> "gpos_chaining",
                      subtables |-> <<[rules |-> <<[input |-> <<"a">>, backtrack |-> <<"b">>],
                                                   [input |-> <<"c">>, lookahead |-> <<"d">>]>>],
                                      [other |-> <<"b">>]>>])
        @@ ("ext" :> [type |-> "gpos_extension", subtables |-> <<("a" :> 1)>>])]

SampleBASE ==
    [HorizAxis |-> [BaseTagList |-> [BaseScriptList |->
        ("hani" :> (("dflt" :> [BaseValues |-> <<[BaseCoord |-> ("a" :> 1) @@ ("d" :> 2)],
                                                 [tag |-> "ideo"]>>])
                    @@ ("ZHS" :> [tag |-> "none"])))]]]

\* the font object otfccdump gives for the choices made.  glyph_order
\* lists the glyphs the model names; unnamed_glyphs counts the further
\* glyphs of glyph_order, each the glyph of one codepoint of its own that
\* the allow-lists keep and that no lookup or conversion entry refers to,
\* so that no function of the model edits them.
DecodedFont(cmap, gsub, unnamed) ==
    [cmap |-> cmap,
     glyph_order |-> <<".notdef", "a", "b", "c", "d">>,
     unnamed_glyphs |-> unnamed,
     glyf |-> [g \in Glyphs |-> [advanceWidth |-> 1000]],
     name |-> <<[nameID |-> 1, nameString |-> "Family"],
                [nameID |-> 2, nameString |-> "Bold"]>>,
     head |-> [fontRevision |-> "0.9"],
     GSUB |-> gsub,
     GPOS |-> SampleGPOS,
     BASE |-> SampleBASE]

\* load_font: the decoded object with cmap_rev added
load_font(decoded) ==
    [k \in DOMAIN decoded \cup {"cmap_rev"} |->
        IF k = "cmap_rev" THEN build_cmap_rev(decoded) ELSE decoded[k]]

-----------------------------------------------------------------------------
(* Spec: the font-editing functions called, in any order, on a loaded font. *)

Init ==
    /\ \E cmap \in CmapChoices, single \in SingleChoices,
          alternate \in AlternateChoices, ligature \in LigatureChoices,
          other \in OtherChoices :
            font = load_font(DecodedFont(cmap, GsubOf(single, alternate, ligature, other), 0))
    /\ lastOp = <<"load_font">>
    /\ raised = "none"
    /\ returned = <<>>
    /\ items = <<>>
    /\ limit = 1
    /\ groups = <<>>
    /\ pc = "idle"
    /\ build = <<>>

\* remove_codepoint(font, codepoint), the codepoint in cmap or not
RemoveCodepoint(codepoint) ==
    /\ font' = remove_codepoint(font, codepoint)
    /\ lastOp' = <<"remove_codepoint", codepoint>>
    /\ raised' = "none"
    /\ returned' = <<>>
    /\ UNCHANGED <<items, limit, groups, pc, build>>

\* remove_codepoints(font, codepoints), two codepoints or more (the order
\* of the removals does not matter to the outcome)
RemoveCodepoints(codepoints) ==
    /\ font' = remove_codepoints(font, SortedSeq(codepoints))
    /\ lastOp' = <<"remove_codepoints", codepoints>>
    /\ raised' = "none"
    /\ returned' = <<>>
    /\ UNCHANGED <<items, limit, groups, pc, build>>

\* remove_glyph(font, glyph_name)
RemoveGlyph(glyph_name) ==
    /\ font' = remove_glyph(font, glyph_name)
    /\ lastOp' = <<"remove_glyph", glyph_name>>
    /\ raised' = "none"
    /\ returned' = <<>>
    /\ UNCHANGED <<items, limit, groups, pc, build>>

\* get_reachable_glyphs(font)
GetReachableGlyphs ==
    /\ lastOp' = <<"get_reachable_glyphs">>
    /\ IF get_reachable_glyphs_raises(font)
       THEN raised' = "NotImplementedError" /\ returned' = <<>>
       ELSE raised' = "none" /\ returned' = get_reachable_glyphs(font)
    /\ UNCHANGED <<font, items, limit, groups, pc, build>>

\* clean_unused_glyphs(font): get_reachable_glyphs runs first, and nothing
\* has been touched when it raises
CleanUnusedGlyphs ==
    /\ lastOp' = <<"clean_unused_glyphs">>
    /\ IF get_reachable_glyphs_raises(font)
       THEN raised' = "NotImplementedError" /\ font' = font
       ELSE raised' = "none" /\ font' = clean_unused_glyphs(font)
    /\ returned' = <<>>
    /\ UNCHANGED <<items, limit, groups, pc, build>>

Next ==
    \/ \E codepoint \in Codepoints \cup {AbsentCodepoint} : RemoveCodepoint(codepoint)
    \/ \E codepoints \in {S \in SUBSET Codepoints : Cardinality(S) >= 2} :
            RemoveCodepoints(codepoints)
    \/ \E glyph_name \in Glyphs : RemoveGlyph(glyph_name)
    \/ GetReachableGlyphs
    \/ CleanUnusedGlyphs

Spec == Init /\ [][Next]_vars

-----------------------------------------------------------------------------
(* SpecChunk: grouper and grouper2 on bounded inputs. *)

\* the items handed in: lists of 1..3 elements, keyed by their length as in
\* create_word2pseu_table
ChunkItems == {<<1>>, <<2>>, <<1, 1>>, <<1, 2, 1>>}

itemKey == [x \in ChunkItems |-> Len(x)]

SeqsUpTo(S, k) == UNION {[1..m -> S] : m \in 0..k}

\* no font is loaded
NoFont == [cmap |-> <<>>]

InitChunk ==
    /\ items \in SeqsUpTo(ChunkItems, MaxLen)
    /\ limit \in 1..MaxN
    /\ groups = <<>>
    /\ font = NoFont
    /\ lastOp = <<"none">>
    /\ raised = "none"
    /\ returned = <<>>
    /\ pc = "idle"
    /\ build = <<>>

CallGrouper ==
    /\ lastOp = <<"none">>
    /\ groups' = grouper(items, limit)
    /\ lastOp' = <<"grouper">>
    /\ UNCHANGED <<items, limit, font, raised, returned, pc, build>>

CallGrouper2 ==
    /\ lastOp = <<"none">>
    /\ groups' = grouper2(items, limit, itemKey)
    /\ lastOp' = <<"grouper2">>
    /\ UNCHANGED <<items, limit, font, raised, returned, pc, build>>

NextChunk == CallGrouper \/ CallGrouper2

SpecChunk == InitChunk /\ [][NextChunk]_vars

-----------------------------------------------------------------------------
(* SpecBuild: build_font (font.py 445-491), statement by statement.        *)

\* cmap of the input font: U+0041, U+0100, U+5927, U+5C0F, U+56FD
BuildCmapChoices ==
    {(str(65) :> "a") @@ (str(22823) :> "b") @@ (str(23567) :> "c") @@ (str(22269) :> "d"),
     (str(65) :> "a") @@ (str(22823) :> "b") @@ (str(23567) :> "b") @@ (str(256) :> "d"),
     (str(22823) :> "b") @@ (str(23567) :> "c")}

BuildGsubChoices ==
    {GsubOf(<<>>, <<>>, <<>>, <<>>),
     GsubOf(("b" :> "c") @@ ("c" :> "d"), ("a" :> <<"c", "d">>),
            <<[from |-> <<"a", "b">>, to |-> "c"]>>, <<>>),
     GsubOf(<<>>, <<>>, <<>>,
            ("mult" :> [type |-> "gsub_multiple", flags |-> <<>>,
                        subtables |-> <<("d" :> <<"a", "b">>)>>]))}

\* cache/code_points_han.txt
HanChoices == {{22823, 23567, 22269}, {22823, 23567}}

\* the lines of cache/convert_table_words.txt the model draws from
WordPool ==
    {<<<<22823, 23567, 22269>>, <<22269>>>>,
     <<<<22823, 23567>>, <<23567, 22823>>>>,
     <<<<23567, 22269>>, <<22823>>>>,
     <<<<22823>>, <<22269, 22269>>>>}

\* the lines of cache/convert_table_chars.txt the model draws from
CharPool == {<<22823, 23567>>, <<22269, 22823>>, <<256, 65>>}

\* most lines of the word file
MaxWords == 2
\* most lines of the character file
MaxChars == 1

Distinct(s) == \A i, j \in DOMAIN s : i # j => s[i] # s[j]

\* the word files: distinct lines, sorted from the longest source to the
\* shortest as the file is
WordFiles ==
    {w \in SeqsUpTo(WordPool, MaxWords) :
        /\ Distinct(w)
        /\ \A i, j \in DOMAIN w : i < j => Len(w[i][1]) >= Len(w[j][1])}

CharFiles == {c \in SeqsUpTo(CharPool, MaxChars) : Distinct(c)}

\* the count of glyphs the model leaves unnamed: none, or enough to bring
\* the font to the ceiling or one short of it
UnnamedChoices == {0, MAX_GLYPH_COUNT - 6, MAX_GLYPH_COUNT - 5}

NameHeader ==
    <<[nameID |-> 2, nameString |-> <<"<Typographic Subfamily Name>">>],
      [nameID |-> 5, nameString |-> <<"Version ", "<Version>", "; ", "<Date>">>]>>

NoOutput == [written |-> FALSE]

InitBuild ==
    /\ \E cmap \in BuildCmapChoices, gsub \in BuildGsubChoices,
          han \in HanChoices, words \in WordFiles, chars \in CharFiles,
          unnamed \in UnnamedChoices :
            build = [input_font |-> DecodedFont(cmap, gsub, unnamed),
                     convert_table_chars |-> chars,
                     convert_table_words |-> words,
                     code_points_han |-> han,
                     codepoints_font |-> {},
                     entries_char |-> <<>>,
                     entries_word |-> <<>>,
                     codepoints_final |-> {},
                     i |-> 0,
                     word2pseu_table |-> <<>>,
                     char2char_table |-> <<>>,
                     pseu2word_table |-> <<>>,
                     output |-> NoOutput]
    /\ font = NoFont
    /\ pc = "load_font"
    /\ lastOp = <<"build_font">>
    /\ raised = "none"
    /\ returned = <<>>
    /\ items = <<>>
    /\ limit = 1
    /\ groups = <<>>

feature_name == "liga_s2t"

\* font = load_font(input_file, ttc_index=ttc_index)
LoadFont ==
    /\ pc = "load_font"
    /\ font' = load_font(build.input_font)
    /\ pc' = "build_tables"
    /\ UNCHANGED <<build, lastOp, raised, returned, items, limit, groups>>

\* codepoints_font, entries_char, entries_word and codepoints_final
BuildTables ==
    /\ pc = "build_tables"
    /\ LET codepoints_font == build_codepoints_font(font)
       IN build' = [build EXCEPT
            !.codepoints_font = codepoints_font,
            !.entries_char = build_opencc_char_table(codepoints_font, build.convert_table_chars),
            !.entries_word = build_opencc_word_table(codepoints_font, build.convert_table_words),
            !.codepoints_final =
                {c \in codepoints_font : InNonHan(c) \/ c \in build.code_points_han}]
    /\ pc' = "remove_codepoints"
    /\ UNCHANGED <<font, lastOp, raised, returned, items, limit, groups>>

\* remove_codepoints(font, codepoints_font - codepoints_final)
PruneCodepoints ==
    /\ pc = "remove_codepoints"
    /\ font' = remove_codepoints(font,
                    SortedSeq(build.codepoints_font \ build.codepoints_final))
    /\ pc' = "clean_unused_glyphs"
    /\ UNCHANGED <<build, lastOp, raised, returned, items, limit, groups>>

\* clean_unused_glyphs(font); its NotImplementedError ends the build
PruneGlyphs ==
    /\ pc = "clean_unused_glyphs"
    /\ IF get_reachable_glyphs_raises(font)
       THEN font' = font /\ raised' = "NotImplementedError" /\ pc' = "failed"
       ELSE font' = clean_unused_glyphs(font) /\ raised' = raised /\ pc' = "assert"
    /\ UNCHANGED <<build, lastOp, returned, items, limit, groups>>

\* assert available_glyph_count >= len(entries_word)
AssertAvailable ==
    /\ pc = "assert"
    /\ IF assert_available(font, build.entries_word)
       THEN raised' = raised /\ pc' = "tables"
       ELSE raised' = "AssertionError" /\ pc' = "failed"
    /\ UNCHANGED <<font, build, lastOp, returned, items, limit, groups>>

\* [codepoint_to_glyph_name(font, codepoint) for codepoint in codepoints]
GlyphNames(obj, codepoints) ==
    [k \in DOMAIN codepoints |-> codepoint_to_glyph_name(obj, codepoints[k])]

\* one pass of the loop over enumerate(entries_word); a KeyError of
\* codepoint_to_glyph_name ends the build before the glyph is inserted
WordEntry ==
    /\ pc = "tables"
    /\ build.i < Len(build.entries_word)
    /\ LET entry == build.entries_word[build.i + 1]
           name == pseudo_glyph_name(build.i)
       IN IF \E c \in Range(entry[1]) \cup Range(entry[2]) :
                codepoint_to_glyph_name_raises(font, c)
          THEN /\ raised' = "KeyError"
               /\ pc' = "failed"
               /\ UNCHANGED <<font, build>>
          ELSE /\ font' = insert_empty_glyph(font, name)
               /\ build' = [build EXCEPT
                    !.i = @ + 1,
                    !.word2pseu_table = Append(@, <<GlyphNames(font, entry[1]), name>>),
                    !.pseu2word_table = Append(@, <<name, GlyphNames(font, entry[2])>>)]
               /\ UNCHANGED <<raised, pc>>
    /\ UNCHANGED <<lastOp, returned, items, limit, groups>>

\* the loop over entries_char, once the loop over entries_word is through
CharEntries ==
    /\ pc = "tables"
    /\ build.i = Len(build.entries_word)
    /\ IF \E k \in DOMAIN build.entries_char :
            \E c \in Range(build.entries_char[k]) : codepoint_to_glyph_name_raises(font, c)
       THEN /\ raised' = "KeyError"
            /\ pc' = "failed"
            /\ UNCHANGED build
       ELSE /\ build' = [build EXCEPT !.char2char_table =
                            [k \in DOMAIN build.entries_char |->
                                GlyphNames(font, build.entries_char[k])]]
            /\ UNCHANGED raised
            /\ pc' = "insert_empty_feature"
    /\ UNCHANGED <<font, lastOp, returned, items, limit, groups>>

InsertEmptyFeature ==
    /\ pc = "insert_empty_feature"
    /\ font' = insert_empty_feature(font, feature_name)
    /\ pc' = "create_word2pseu_table"
    /\ UNCHANGED <<build, lastOp, raised, returned, items, limit, groups>>

CreateWord2Pseu ==
    /\ pc = "create_word2pseu_table"
    /\ font' = create_word2pseu_table(font, feature_name, build.word2pseu_table)
    /\ pc' = "create_char2char_table"
    /\ UNCHANGED <<build, lastOp, raised, returned, items, limit, groups>>

CreateChar2Char ==
    /\ pc = "create_char2char_table"
    /\ font' = create_char2char_table(font, feature_name, build.char2char_table)
    /\ pc' = "create_pseu2word_table"
    /\ UNCHANGED <<build, lastOp, raised, returned, items, limit, groups>>

CreatePseu2Word ==
    /\ pc = "create_pseu2word_table"
    /\ font' = create_pseu2word_table(font, feature_name, build.pseu2word_table)
    /\ pc' = "modify_metadata"
    /\ UNCHANGED <<build, lastOp, raised, returned, items, limit, groups>>

ModifyMetadata ==
    /\ pc = "modify_metadata"
    /\ font' = modify_metadata(font, NameHeader, "1.0", "today")
    /\ pc' = "save_font"
    /\ UNCHANGED <<build, lastOp, raised, returned, items, limit, groups>>

\* save_font(font, output_file)
SaveFont ==
    /\ pc = "save_font"
    /\ font' = save_font(font)
    /\ build' = [build EXCEPT !.output = [written |-> TRUE, font |-> save_font(font)]]
    /\ pc' = "done"
    /\ UNCHANGED <<lastOp, raised, returned, items, limit, groups>>

NextBuild ==
    \/ LoadFont
    \/ BuildTables
    \/ PruneCodepoints
    \/ PruneGlyphs
    \/ AssertAvailable
    \/ WordEntry
    \/ CharEntries
    \/ InsertEmptyFeature
    \/ CreateWord2Pseu
    \/ CreateChar2Char
    \/ CreatePseu2Word
    \/ ModifyMetadata
    \/ SaveFont

SpecBuild == InitBuild /\ [][NextBuild]_vars

-----------------------------------------------------------------------------
(* Claims about the partitioners. *)

\* C3: grouper yields groups that concatenate back to the input in order;
\* every group is non-empty and has at most n items, and every group but
\* the last has exactly n (so an empty input yields no groups).
C3_GrouperPartitions ==
    lastOp = <<"grouper">> =>
        /\ Flatten(groups) = items
        /\ \A i \in DOMAIN groups :
                /\ Len(groups[i]) >= 1
                /\ Len(groups[i]) <= limit
                /\ (i < Len(groups) => Len(groups[i]) = limit)
        /\ (items = <<>> => groups = <<>>)

\* a run of grouper that ended in a short last group after a full one
C3_Witness ==
    /\ lastOp = <<"grouper">>
    /\ Len(groups) >= 2
    /\ Len(groups[Len(groups)]) < limit

\* C4: no group yielded by grouper2 holds two items of different key, each
\* group has at most n items, and the groups concatenate back to the input.
C4_Grouper2KeepsKeysApart ==
    lastOp = <<"grouper2">> =>
        /\ Flatten(groups) = items
        /\ \A i \in DOMAIN groups :
                /\ Len(groups[i]) >= 1
                /\ Len(groups[i]) <= limit
                /\ \A a, b \in DOMAIN groups[i] :
                        itemKey[groups[i][a]] = itemKey[groups[i][b]]

\* two adjacent runs of different key that together would fit one chunk
C4_Witness ==
    /\ lastOp = <<"grouper2">>
    /\ \E i \in 1..(Len(groups) - 1) :
            /\ itemKey[groups[i][1]] # itemKey[groups[i + 1][1]]
            /\ Len(groups[i]) + Len(groups[i + 1]) <= limit

-----------------------------------------------------------------------------
(* Claims about the font-editing functions. *)

AllKeys == {str(c) : c \in Codepoints \cup {AbsentCodepoint}}

\* C1: after any calls of remove_codepoint / remove_codepoints, with
\* codepoints present or absent, cmap[c] = g exactly when c is listed in
\* cmap_rev[g]; no cmap_rev entry lists a codepoint that has left cmap.
C1_ReverseIndex ==
    /\ \A c \in AllKeys, g \in Glyphs :
            (c \in DOMAIN font.cmap /\ font.cmap[c] = g)
                <=> (g \in DOMAIN font.cmap_rev /\ c \in Range(font.cmap_rev[g]))
    /\ \A g \in DOMAIN font.cmap_rev :
            \A c \in Range(font.cmap_rev[g]) : c \in DOMAIN font.cmap

\* remove_codepoints has taken two or more codepoints out of cmap, and a
\* glyph is left that still lists a codepoint
C1_Witness ==
    /\ lastOp[1] = "remove_codepoints"
    /\ Cardinality(lastOp[2]) >= 2
    /\ \A c \in lastOp[2] : str(c) \notin DOMAIN font.cmap
    /\ \E g \in DOMAIN font.cmap_rev : Len(font.cmap_rev[g]) >= 1

OnlyKnownGsub(obj) ==
    \A l \in DOMAIN obj.GSUB.lookups : obj.GSUB.lookups[l].type \in GsubKnownTypes

\* C2: for a font whose GSUB lookups are gsub_single, gsub_alternate and
\* gsub_ligature only, a second clean_unused_glyphs right after the first
\* changes nothing: the reachable set and glyph_order stay as the first
\* call left them.
C2_CleanIdempotent ==
    (lastOp = <<"clean_unused_glyphs">> /\ raised = "none" /\ OnlyKnownGsub(font)) =>
        LET again == clean_unused_glyphs(font)
        IN /\ again.glyph_order = font.glyph_order
           /\ get_reachable_glyphs(again) = get_reachable_glyphs(font)

\* g at one of the GSUB positions listed for remove_glyph
GlyphInGsub(obj, g) ==
    \E l \in DOMAIN obj.GSUB.lookups :
        LET lookup == obj.GSUB.lookups[l]
        IN \E i \in DOMAIN lookup.subtables :
            LET st == lookup.subtables[i]
            IN CASE lookup.type = "gsub_single" ->
                        g \in DOMAIN st \/ \E k \in DOMAIN st : st[k] = g
                 [] lookup.type = "gsub_alternate" ->
                        g \in DOMAIN st \/ \E k \in DOMAIN st : g \in Range(st[k])
                 [] lookup.type = "gsub_ligature" ->
                        \E s \in Range(st.substitutions) : g \in Range(s.from) \/ g = s.to
                 [] lookup.type = "gsub_multiple" -> g \in DOMAIN st
                 [] OTHER -> FALSE

\* the rules and entries of subtable `before` that do not reference g are
\* in subtable `after` as they were
UnreferencingKept(type, before, after, g) ==
    CASE type = "gsub_single" ->
            \A k \in DOMAIN before : (k # g /\ before[k] # g) =>
                (k \in DOMAIN after /\ after[k] = before[k])
      [] type = "gsub_alternate" ->
            \A k \in DOMAIN before : (k # g /\ g \notin Range(before[k])) =>
                (k \in DOMAIN after /\ after[k] = before[k])
      [] type = "gsub_ligature" ->
            SelectSeq(before.substitutions,
                      LAMBDA s : g \notin Range(s.from) /\ g # s.to)
                = after.substitutions
      [] type = "gsub_multiple" ->
            \A k \in DOMAIN before : k # g =>
                (k \in DOMAIN after /\ after[k] = before[k])
      [] OTHER -> after = before

GsubUnreferencingKept(before, after, g) ==
    /\ DOMAIN after.GSUB.lookups = DOMAIN before.GSUB.lookups
    /\ \A l \in DOMAIN before.GSUB.lookups :
        LET b == before.GSUB.lookups[l]
            a == after.GSUB.lookups[l]
        IN /\ a.type = b.type
           /\ DOMAIN a.subtables = DOMAIN b.subtables
           /\ \A i \in DOMAIN b.subtables :
                UnreferencingKept(b.type, b.subtables[i], a.subtables[i], g)

\* the step is remove_glyph(font, g), or remove_codepoint on the last
\* codepoint of g
RemovesGlyph(g) ==
    \/ lastOp' = <<"remove_glyph", g>>
    \/ \E c \in Codepoints :
        /\ lastOp' = <<"remove_codepoint", c>>
        /\ str(c) \in DOMAIN font.cmap
        /\ font.cmap[str(c)] = g
        /\ CmapRevGet(font, g) = <<str(c)>>

\* C8: after remove_glyph(font, g), called directly or by cascade from
\* remove_codepoint, g is at none of the GSUB positions (gsub_single key or
\* value, gsub_alternate key or list member, gsub_ligature from or to,
\* gsub_multiple key), and what does not reference g is unchanged.
C8_GlyphGoneFromGsub ==
    [][\A g \in Glyphs :
        RemovesGlyph(g) =>
            /\ ~GlyphInGsub(font', g)
            /\ GsubUnreferencingKept(font, font', g)]_vars

\* the least set that holds .notdef, .null and the glyphs of cmap and is
\* closed under the gsub_single, gsub_alternate and gsub_ligature rules
RECURSIVE ClosedUnderGsub(_, _)
ClosedUnderGsub(obj, S) ==
    LET more == S \cup UNION {GlyphRefs(obj, g) : g \in S}
    IN IF more = S THEN S ELSE ClosedUnderGsub(obj, more)

ReachableClosure(obj) ==
    ClosedUnderGsub(obj, {".notdef", ".null"} \cup {obj.cmap[c] : c \in DOMAIN obj.cmap})

\* C9: get_reachable_glyphs returns the transitive closure of the glyphs
\* of cmap under the GSUB rules, so a glyph two or more substitutions away
\* from cmap is in the result.
C9_ReachableIsClosure ==
    (lastOp = <<"get_reachable_glyphs">> /\ raised = "none") =>
        returned = ReachableClosure(font)

HasUnknownGsub(obj) == ~OnlyKnownGsub(obj)

\* g at one of the positions remove_glyph edits in the lookups it knows
GlyphInGpos(obj, g) ==
    \E l \in DOMAIN obj.GPOS.lookups :
        LET lookup == obj.GPOS.lookups[l]
        IN \E i \in DOMAIN lookup.subtables :
            LET st == lookup.subtables[i]
            IN CASE lookup.type \in {"gpos_single", "gpos_cursive"} -> g \in DOMAIN st
                 [] lookup.type = "gpos_pair" ->
                        g \in DOMAIN st.first \/ g \in DOMAIN st.second
                 [] lookup.type = "gpos_mark_to_base" ->
                        g \in DOMAIN st.marks \/ g \in DOMAIN st.bases
                 [] lookup.type = "gpos_mark_to_mark" ->
                        g \in DOMAIN st.marks \/ g \in DOMAIN st.mark2s
                 [] lookup.type = "gpos_mark_to_ligature" ->
                        \/ g \in DOMAIN st.marks
                        \/ \E b \in DOMAIN st.bases : \E a \in DOMAIN st.bases[b] :
                                g \in DOMAIN st.bases[b][a]
                 [] lookup.type = "gpos_context" /\ "rules" \in DOMAIN st ->
                        \E r \in Range(st.rules) :
                            g \in Range(RuleGet(r, "input")) \cup Range(RuleGet(r, "lookups"))
                 [] lookup.type = "gpos_context" /\ "coverage" \in DOMAIN st ->
                        g \in Range(st.coverage)
                 [] lookup.type = "gpos_context" /\ "classes" \in DOMAIN st ->
                        \E k \in DOMAIN st.classes : g \in Range(st.classes[k])
                 [] lookup.type = "gpos_chaining" /\ "rules" \in DOMAIN st ->
                        \E r \in Range(st.rules) :
                            g \in Range(RuleGet(r, "input")) \cup Range(RuleGet(r, "backtrack"))
                                \cup Range(RuleGet(r, "lookahead")) \cup Range(RuleGet(r, "lookups"))
                 [] OTHER -> FALSE

\* g at one of the positions of a lookup type remove_glyph knows
GlyphInKnownGsub(obj, g) ==
    GlyphInGsub([obj EXCEPT !.GSUB.lookups =
        [l \in {x \in DOMAIN @ : @[x].type \in GsubKnownTypes} |-> @[l]]], g)

\* remove_glyph on a font with a GSUB lookup of another type ends without
\* error, with g out of glyph_order, glyf and the lookups it knows
RemoveGlyphSkipsUnknown ==
    (lastOp[1] = "remove_glyph" /\ HasUnknownGsub(font)) =>
        /\ raised = "none"
        /\ lastOp[2] \notin Range(font.glyph_order)
        /\ lastOp[2] \notin DOMAIN font.glyf
        /\ ~GlyphInKnownGsub(font, lastOp[2])
        /\ ~GlyphInGpos(font, lastOp[2])

\* C10 as claimed: with a GSUB lookup of another type, remove_glyph still
\* completes and strips the glyph, and clean_unused_glyphs always ends in
\* the error and removes nothing, also when cmap is empty.
C10_UnknownAlwaysFatal ==
    /\ []RemoveGlyphSkipsUnknown
    /\ [][(lastOp' = <<"clean_unused_glyphs">> /\ HasUnknownGsub(font)) =>
            (raised' = "NotImplementedError" /\ font' = font)]_vars

\* C10 as the code has it: with a GSUB lookup of another type, remove_glyph
\* still completes and strips the glyph; clean_unused_glyphs ends in the
\* error and removes nothing when cmap has an entry, and when cmap is
\* empty it ends without error and removes every glyph of glyph_order
\* other than .notdef and .null.
C10_UnknownFatalUnlessCmapEmpty ==
    /\ []RemoveGlyphSkipsUnknown
    /\ [][(lastOp' = <<"clean_unused_glyphs">> /\ HasUnknownGsub(font)) =>
            IF ~CmapIsEmpty(font)
            THEN raised' = "NotImplementedError" /\ font' = font
            ELSE /\ raised' = "none"
                 /\ Range(font'.glyph_order) = Range(font.glyph_order) \cap {".notdef", ".null"}
                 /\ font'.cmap = font.cmap]_vars

\* clean_unused_glyphs ended in the error on a font that has codepoints
C10_Witness ==
    /\ lastOp = <<"clean_unused_glyphs">>
    /\ raised = "NotImplementedError"
    /\ HasUnknownGsub(font)
    /\ ~CmapIsEmpty(font)
    /\ Len(font.glyph_order) >= 3

-----------------------------------------------------------------------------
(* Claims about build_font. *)

\* the statements of build_font after create_word2pseu_table
AfterWord2Pseu ==
    {"create_char2char_table", "create_pseu2word_table", "modify_metadata",
     "save_font", "done"}

\* the rules of the word2pseu lookup, read subtable by subtable
Word2PseuRules ==
    LET subtables == font.GSUB.lookups["word2pseu"].subtables
    IN Flatten([i \in DOMAIN subtables |-> subtables[i].substitutions])

\* C5: with the word entries longest source first, the rules of word2pseu,
\* read subtable by subtable, list the source glyph sequences in the order
\* of the word entries, so a longer source never comes after a shorter
\* one, and the i-th rule targets the i-th placeholder glyph.
C5_Word2PseuKeepsOrder ==
    pc \in AfterWord2Pseu =>
        LET rules == Word2PseuRules
            n == Len(build.entries_word)
        IN /\ Len(rules) = n
           /\ \A i \in 1..n :
                /\ rules[i].from = GlyphNames(font, build.entries_word[i][1])
                /\ rules[i].to = pseudo_glyph_name(i - 1)
                /\ rules[i].to = font.glyph_order[Len(font.glyph_order) - n + i]
           /\ \A i, j \in 1..n : i < j => Len(rules[i].from) >= Len(rules[j].from)

\* a build that ended with a 3-glyph rule in a subtable ahead of the
\* subtable of a 2-glyph rule
C5_Witness ==
    /\ pc = "done"
    /\ LET subtables == font.GSUB.lookups["word2pseu"].subtables
       IN /\ Len(subtables) >= 2
          /\ Len(subtables[1].substitutions[1].from) = 3
          /\ Len(subtables[2].substitutions[1].from) = 2

\* the statements of build_font after the assertion
AfterAssert ==
    {"tables", "insert_empty_feature", "create_word2pseu_table",
     "create_char2char_table", "create_pseu2word_table", "modify_metadata",
     "save_font", "done"}

\* C6: when glyph_count + len(word_entries) > 65535 after pruning, the
\* build ends in the assertion's error with no placeholder glyph inserted
\* and no output file; whenever save_font is reached, len(glyph_order) is
\* at most 65535.
C6_CapacityChecked ==
    /\ raised = "AssertionError" =>
            /\ pc = "failed"
            /\ get_glyph_count(font) + Len(build.entries_word) > MAX_GLYPH_COUNT
            /\ build.i = 0
            /\ \A k \in DOMAIN font.glyph_order :
                    font.glyph_order[k] \in Range(build.input_font.glyph_order)
            /\ ~build.output.written
    /\ pc \in AfterAssert =>
            (get_glyph_count(font) - build.i) + Len(build.entries_word) <= MAX_GLYPH_COUNT
    /\ pc \in {"save_font", "done"} => get_glyph_count(font) <= MAX_GLYPH_COUNT
    /\ build.output.written => (pc = "done" /\ get_glyph_count(build.output.font) <= MAX_GLYPH_COUNT)

\* a build that the assertion ended, one glyph over the ceiling
C6_Witness ==
    /\ raised = "AssertionError"
    /\ get_glyph_count(font) + Len(build.entries_word) = MAX_GLYPH_COUNT + 1

\* C7: after insert_empty_feature and the three create_*_table calls, the
\* feature is in every language system's features list, its lookup list
\* is [word2pseu, char2char, pseu2word], and these three names end
\* lookupOrder in that order after the entries it had.
C7_FeatureRegistered ==
    pc \in {"modify_metadata", "save_font", "done"} =>
        /\ DOMAIN font.GSUB.languages = DOMAIN build.input_font.GSUB.languages
        /\ \A t \in DOMAIN font.GSUB.languages :
                feature_name \in Range(font.GSUB.languages[t].features)
        /\ font.GSUB.features[feature_name] = <<"word2pseu", "char2char", "pseu2word">>
        /\ font.GSUB.lookupOrder =
                build.input_font.GSUB.lookupOrder \o <<"word2pseu", "char2char", "pseu2word">>

\* a finished build of a font that had lookups and two language systems
C7_Witness ==
    /\ pc = "done"
    /\ Len(build.input_font.GSUB.lookupOrder) >= 3
    /\ Cardinality(DOMAIN font.GSUB.languages) >= 2
    /\ Len(build.entries_word) >= 1

-----------------------------------------------------------------------------
(* Claims about the translation of the entries to glyph names              *)
(* (font.py 450-458, 469-482).                                            *)

\* the codepoints the retained entries name
EntryCodepoints ==
    UNION {Range(build.entries_word[k][1]) \cup Range(build.entries_word[k][2]) :
                k \in DOMAIN build.entries_word}
    \cup UNION {Range(build.entries_char[k]) : k \in DOMAIN build.entries_char}

\* C11: in build_font, every codepoint of every character and word entry
\* the coverage filter retained is still a key of cmap when the entries
\* are translated to glyph names, after remove_codepoints and
\* clean_unused_glyphs have run, so codepoint_to_glyph_name never meets a
\* missing codepoint and the build does not abort there.
C11_EntriesStillInCmap ==
    /\ pc = "tables" =>
            \A c \in EntryCodepoints : ~codepoint_to_glyph_name_raises(font, c)
    /\ raised # "KeyError"

====
